---- MODULE Spec2Model ----
(***************************************************************************)
(* Model of the two example binaries of the repository:                    *)
(*   examples/r1cs_inspect.rs  - loads a ProverData artifact and prints a  *)
(*                               report (main and print_lc);               *)
(*   examples/zcheck_curly.rs  - runs the ZoKratesCurly front end inside   *)
(*                               catch_unwind and reports the outcome.     *)
(* Text is modelled as a sequence of one-character strings.  Every print   *)
(* macro call appends one event to `out`; `lead` counts the blank lines a  *)
(* leading "\n" of the format string puts before the line.                 *)
(***************************************************************************)
EXTENDS Integers, Sequences, FiniteSets, TLC

\* ---- bounds of the model ----
MaxVars == 2
MaxConstraints == 2
MaxMonomials == 2
MaxCoeff == 10
MaxArgc == 3

\* ---- inputs ----
VarIds == 0 .. (MaxVars - 1)
\* display names an artifact may register (the empty string included)
NameTexts == { <<>>, <<"a">>, <<"b", "c">> }
\* values lc.constant().i() and coeff.i() may return
ConstantValues == {0, 3, MaxCoeff}
CoeffValues == {1, 2, MaxCoeff}
\* panic payload messages of the front end
Messages == { <<"e">>, <<"s", "y", "n">> }

Injective(q) == \A i, j \in 1 .. Len(q) : q[i][1] = q[j][1] => i = j

\* monomials: Variable -> coefficient with unique keys, in iteration order
MonomialSeqs ==
    { q \in UNION { [1 .. n -> VarIds \X CoeffValues] : n \in 0 .. MaxMonomials } :
        Injective(q) }

Lcs == [constant : ConstantValues, monomials : MonomialSeqs]

\* the name mapping: a partial function Variable -> String
NameMaps == UNION { [D -> NameTexts] : D \in SUBSET VarIds }

\* ---- formatting ----
Digit(d) == <<"0", "1", "2", "3", "4", "5", "6", "7", "8", "9">>[d + 1]

RECURSIVE Decimal(_)
\* "{}" of a non-negative integer
Decimal(n) == IF n < 10 THEN <<Digit(n)>>
              ELSE Decimal(n \div 10) \o <<Digit(n % 10)>>

Separator == <<" ", "+", " ">>

\* variant: the fallback token of the Variables section used here too
LcVarNameUnnamed(names, var) ==
    IF var \in DOMAIN names THEN names[var] ELSE <<"<unnamed>">>

\* names.get(var).map(|s| s.as_str()).unwrap_or("?")
LcVarName(names, var) ==
    IF var \in DOMAIN names THEN names[var] ELSE <<"?">>

\* variant: the coefficient is written even when it is 1
MonomialTextAlways(coeff, name) == Decimal(coeff) \o <<"*">> \o name

\* the text one monomial writes into the accumulator
MonomialText(coeff, name) ==
    IF coeff = 1 THEN name
    ELSE Decimal(coeff) \o <<"*">> \o name

\* the accumulator after the constant has been handled
ConstantStep(c) ==
    IF c # 0 THEN [s |-> Decimal(c), parts |-> <<"const">>]
    ELSE [s |-> <<>>, parts |-> <<>>]

\* variant: the separator is pushed without looking at the accumulator
SeparatorBeforeAlways(s) == Separator

\* what the loop body pushes before the monomial
SeparatorBefore(s) == IF s # <<>> THEN Separator ELSE <<>>

RECURSIVE LcLoop(_, _, _, _)
\* the for loop of print_lc from monomial k on; acc.s is the String s,
\* acc.parts records which write produced each piece of it
LcLoop(monomials, names, k, acc) ==
    IF k > Len(monomials) THEN acc
    ELSE LET sep  == SeparatorBefore(acc.s)
             name == LcVarName(names, monomials[k][1])
             text == MonomialText(monomials[k][2], name)
         IN  LcLoop(monomials, names, k + 1,
                    [s     |-> acc.s \o sep \o text,
                     parts |-> acc.parts
                                 \o (IF sep # <<>> THEN <<"sep">> ELSE <<>>)
                                 \o <<"mono">>])

\* variant: the empty accumulator is printed as it is
ZeroIfEmptyOmitted(s) == s

\* if s.is_empty() { s.push('0') }
ZeroIfEmpty(s) == IF s = <<>> THEN <<"0">> ELSE s

\* print_lc: the rendered value and the writes that built it
PrintLc(lc, names) ==
    LET acc == LcLoop(lc.monomials, names, 1, ConstantStep(lc.constant))
    IN  [s |-> ZeroIfEmpty(acc.s), parts |-> acc.parts]

\* ---- output events ----
Ev(stream, kind, lead, n, var, label, text) ==
    [stream |-> stream, kind |-> kind, lead |-> lead, n |-> n, var |-> var,
     label |-> label, text |-> text]

Out(kind, lead) == Ev("stdout", kind, lead, -1, -1, "", <<>>)
OutN(kind, n) == Ev("stdout", kind, 0, n, -1, "", <<>>)
Err(kind, text) == Ev("stderr", kind, 0, -1, -1, "", text)

\* println!("{}: {}", label, s)
LcLine(label, lc, names) ==
    Ev("stdout", "lc", 0, -1, -1, label, PrintLc(lc, names).s)

\* what the default panic hook writes to the error stream when a panic
\* starts: where it happened, its message, and either the backtrace or the
\* note about RUST_BACKTRACE
PanicReport(msg, bt) ==
    << Err("panic_location", <<>>),
       Err("panic_message", msg),
       Err(IF bt THEN "stack_backtrace" ELSE "panic_note", <<>>) >>

\* ---- the artifact ----
VarSeqs ==
    { q \in UNION { [1 .. n -> VarIds] : n \in 0 .. MaxVars } :
        \A i, j \in 1 .. Len(q) : q[i] = q[j] => i = j }

ReportNames == { <<"a">>, <<"b", "c">> }
ReportNameMaps == UNION { [D -> ReportNames] : D \in SUBSET VarIds }

Lc(c, m) == [constant |-> c, monomials |-> m]

\* rows (A, B, C) an artifact may hold
Rows == { << Lc(3, << <<v, 2>> >>), Lc(0, << <<v, 1>> >>), Lc(0, <<>>) >> : v \in VarIds }

\* the constraints of an artifact: rows in any order, none repeated
RowSeqs ==
    { q \in UNION { [1 .. n -> Rows] : n \in 0 .. MaxConstraints } :
        \A j, k \in 1 .. Len(q) : q[j] = q[k] => j = k }

Moduli == {17}
StepCounts == {4}
StepArgCounts == {7}

ProverData ==
    [modulus : Moduli, vars : VarSeqs, names : ReportNameMaps, constraints : RowSeqs,
     num_steps : StepCounts, num_step_args : StepArgCounts]

NoData ==
    [modulus |-> 0, vars |-> <<>>, names |-> <<>>, constraints |-> <<>>,
     num_steps |-> 0, num_step_args |-> 0]

\* what the path argument leads to
Files ==
    { [state |-> "missing", data |-> NoData], [state |-> "corrupt", data |-> NoData] }
    \cup { [state |-> "valid", data |-> d] : d \in ProverData }

NoFile == [state |-> "none", data |-> NoData]

\* outcome of ZSharpCurlyFE::gen(inputs): a circuit, or a panic with a payload
NoPayload == [type |-> "none", msg |-> <<>>]
Payloads ==
    { [type |-> t, msg |-> m] : t \in {"String", "str"}, m \in Messages }
    \cup { [type |-> "other", msg |-> <<"Box<dyn Any>">>] }
FrontEnds ==
    { [returns |-> TRUE, payload |-> NoPayload] }
    \cup { [returns |-> FALSE, payload |-> p] : p \in Payloads }
NoFrontEnd == [returns |-> TRUE, payload |-> NoPayload]

NoCaught == [tag |-> "none", payload |-> NoPayload]

NoLc == [label |-> "", lc |-> Lc(0, <<>>), names |-> <<>>]
NoRendered == [s |-> <<>>, parts |-> <<>>]

VARIABLES
    tool,         \* which program runs
    argc,         \* args.len()
    file,         \* what args[1] names
    backtrace,    \* RUST_BACKTRACE is set
    frontend,     \* what the front end does with the source file
    lcArg,        \* the arguments of a print_lc call
    pc,           \* position in main
    prover_data,  \* the deserialized artifact
    i,            \* index of the running enumerate() loop
    caught,       \* the value catch_unwind returned
    rendered,     \* the String s print_lc built
    out,          \* the lines printed so far
    exitCode      \* process exit status, -1 while running

vars == <<tool, argc, file, backtrace, frontend, lcArg, pc, prover_data, i, caught,
          rendered, out, exitCode>>

inputs == <<tool, argc, file, backtrace, frontend, lcArg>>

Fresh ==
    /\ prover_data = NoData
    /\ i = 0
    /\ caught = NoCaught
    /\ rendered = NoRendered
    /\ out = <<>>
    /\ exitCode = -1

InitInspect ==
    /\ tool = "r1cs_inspect"
    /\ argc \in 1 .. MaxArgc
    /\ file \in (IF argc = 2 THEN Files ELSE {NoFile})
    /\ backtrace \in (IF file.state = "corrupt" THEN BOOLEAN ELSE {FALSE})
    /\ frontend = NoFrontEnd
    /\ lcArg = NoLc
    /\ pc = "args"
    /\ Fresh

InitCheck ==
    /\ tool = "zcheck_curly"
    /\ argc = 2
    /\ file = NoFile
    /\ backtrace \in BOOLEAN
    /\ frontend \in FrontEnds
    /\ lcArg = NoLc
    /\ pc = "gen"
    /\ Fresh

InitLc ==
    /\ tool = "print_lc"
    /\ argc = 2
    /\ file = NoFile
    /\ backtrace = FALSE
    /\ frontend = NoFrontEnd
    /\ lcArg \in [label : {"  A"}, lc : Lcs, names : NameMaps]
    /\ pc = "call"
    /\ Fresh

Init == InitInspect \/ InitCheck \/ InitLc

\* std::process::exit(code), or main returning / panicking with that status
Exit(code) ==
    /\ exitCode' = code
    /\ pc' = "exited"

\* ---- r1cs_inspect: main ----

\* variant: the usage line without the example line
UsageLinesShort == << Err("usage", <<>>) >>

\* the two lines printed when args.len() != 2
UsageLines == << Err("usage", <<>>), Err("example", <<>>) >>

\* if args.len() != 2 { eprintln!(..); eprintln!(..); exit(1) }
CheckArgs ==
    /\ tool = "r1cs_inspect" /\ pc = "args"
    /\ IF argc # 2
         THEN /\ out' = out \o UsageLines
              /\ Exit(1)
         ELSE /\ pc' = "announce"
              /\ UNCHANGED <<out, exitCode>>
    /\ UNCHANGED <<inputs, prover_data, i, caught, rendered>>

\* println!("Loading ProverData from: {}", path)
Announce ==
    /\ tool = "r1cs_inspect" /\ pc = "announce"
    /\ out' = Append(out, Out("loading", 0))
    /\ pc' = "open"
    /\ UNCHANGED <<inputs, prover_data, i, caught, rendered, exitCode>>

\* File::open(path)?  - on Err main returns it: the runtime prints
\* "Error: {:?}" on the error stream and the process ends with status 1
OpenFile ==
    /\ tool = "r1cs_inspect" /\ pc = "open"
    /\ IF file.state = "missing"
         THEN /\ out' = Append(out, Err("io_error", <<>>))
              /\ Exit(1)
         ELSE /\ pc' = "deserialize"
              /\ UNCHANGED <<out, exitCode>>
    /\ UNCHANGED <<inputs, prover_data, i, caught, rendered>>

DeserializeFailed == <<"Failed to deserialize ProverData">>

\* variant: a failed decoding is not checked and the report goes on
DeserializeUnchecked ==
    /\ tool = "r1cs_inspect" /\ pc = "deserialize"
    /\ prover_data' = file.data
    /\ pc' = "summary"
    /\ UNCHANGED <<inputs, i, caught, rendered, out, exitCode>>

\* bincode::deserialize_from(reader).expect(..) - on Err the expect panics:
\* the panic hook reports it and the process ends with status 101
Deserialize ==
    /\ tool = "r1cs_inspect" /\ pc = "deserialize"
    /\ IF file.state = "corrupt"
         THEN /\ out' = out \o PanicReport(DeserializeFailed, backtrace)
              /\ Exit(101)
              /\ UNCHANGED prover_data
         ELSE /\ prover_data' = file.data
              /\ pc' = "summary"
              /\ UNCHANGED <<out, exitCode>>
    /\ UNCHANGED <<inputs, i, caught, rendered>>

SummaryLines(pd) ==
    << Out("summary_header", 1),
       OutN("modulus", pd.modulus),
       OutN("num_vars", Len(pd.vars)),
       OutN("num_constraints", Len(pd.constraints)) >>

PrintSummary ==
    /\ tool = "r1cs_inspect" /\ pc = "summary"
    /\ out' = out \o SummaryLines(prover_data)
    /\ pc' = "variables"
    /\ UNCHANGED <<inputs, prover_data, i, caught, rendered, exitCode>>

\* println!("\n=== Variables ===") and the start of the enumerate() loop
PrintVariablesHeader ==
    /\ tool = "r1cs_inspect" /\ pc = "variables"
    /\ out' = Append(out, Out("variables_header", 1))
    /\ i' = 0
    /\ pc' = "var_loop"
    /\ UNCHANGED <<inputs, prover_data, caught, rendered, exitCode>>

\* names().get(var).map(|s| s.as_str()).unwrap_or("<unnamed>")
VarLineName(names, var) ==
    IF var \in DOMAIN names THEN names[var] ELSE <<"<unnamed>">>

\* println!("Var {:3} ({:?}): {}", i, var, name)
VarLine(k, var, names) ==
    Ev("stdout", "var", 0, k, var, "", VarLineName(names, var))

\* one iteration of the loop over vars()
PrintVar ==
    /\ tool = "r1cs_inspect" /\ pc = "var_loop"
    /\ i < Len(prover_data.vars)
    /\ out' = Append(out, VarLine(i, prover_data.vars[i + 1], prover_data.names))
    /\ i' = i + 1
    /\ UNCHANGED <<inputs, pc, prover_data, caught, rendered, exitCode>>

\* the loop over vars() is exhausted: println!("\n=== Constraints ===")
PrintConstraintsHeader ==
    /\ tool = "r1cs_inspect" /\ pc = "var_loop"
    /\ i = Len(prover_data.vars)
    /\ out' = Append(out, Out("constraints_header", 1))
    /\ i' = 0
    /\ pc' = "constraint_loop"
    /\ UNCHANGED <<inputs, prover_data, caught, rendered, exitCode>>

\* variant: the C row is not printed
ConstraintBlockShort(k, row, names) ==
    << Ev("stdout", "constraint", 1, k, -1, "", <<>>),
       LcLine("  A", row[1], names),
       LcLine("  B", row[2], names) >>

\* the body of the loop over constraints()
ConstraintBlock(k, row, names) ==
    << Ev("stdout", "constraint", 1, k, -1, "", <<>>),
       LcLine("  A", row[1], names),
       LcLine("  B", row[2], names),
       LcLine("  C", row[3], names) >>

PrintConstraint ==
    /\ tool = "r1cs_inspect" /\ pc = "constraint_loop"
    /\ i < Len(prover_data.constraints)
    /\ out' = out \o ConstraintBlock(i, prover_data.constraints[i + 1], prover_data.names)
    /\ i' = i + 1
    /\ UNCHANGED <<inputs, pc, prover_data, caught, rendered, exitCode>>

\* variant: the section header comes after the counts
WitnessLinesHeaderLast(pd) ==
    << OutN("num_steps", pd.num_steps),
       OutN("num_step_args", pd.num_step_args),
       Out("witness_header", 1) >>

WitnessLines(pd) ==
    << Out("witness_header", 1),
       OutN("num_steps", pd.num_steps),
       OutN("num_step_args", pd.num_step_args) >>

\* the loop over constraints() is exhausted: the last section
PrintWitness ==
    /\ tool = "r1cs_inspect" /\ pc = "constraint_loop"
    /\ i = Len(prover_data.constraints)
    /\ out' = out \o WitnessLines(prover_data)
    /\ pc' = "return"
    /\ UNCHANGED <<inputs, prover_data, i, caught, rendered, exitCode>>

\* Ok(())
Return ==
    /\ tool = "r1cs_inspect" /\ pc = "return"
    /\ Exit(0)
    /\ UNCHANGED <<inputs, prover_data, i, caught, rendered, out>>

\* ---- print_lc, called on its own ----
CallPrintLc ==
    /\ tool = "print_lc" /\ pc = "call"
    /\ rendered' = PrintLc(lcArg.lc, lcArg.names)
    /\ out' = Append(out, LcLine(lcArg.label, lcArg.lc, lcArg.names))
    /\ pc' = "returned"
    /\ UNCHANGED <<inputs, prover_data, i, caught, exitCode>>

\* ---- zcheck_curly: main ----

\* std::panic::catch_unwind(|| ZSharpCurlyFE::gen(inputs)): a panic inside
\* the closure runs the panic hook, then unwinds to here with its payload
CallGen ==
    /\ tool = "zcheck_curly" /\ pc = "gen"
    /\ IF frontend.returns
         THEN /\ caught' = [tag |-> "Ok", payload |-> NoPayload]
              /\ UNCHANGED out
         ELSE /\ caught' = [tag |-> "Err", payload |-> frontend.payload]
              /\ out' = out \o PanicReport(frontend.payload.msg, backtrace)
    /\ pc' = "match"
    /\ UNCHANGED <<inputs, prover_data, i, rendered, exitCode>>

\* Ok(_) => { println!("✓ Program is valid"); exit(0) }
ReportValid ==
    /\ tool = "zcheck_curly" /\ pc = "match"
    /\ caught.tag = "Ok"
    /\ out' = Append(out, Out("valid", 0))
    /\ Exit(0)
    /\ UNCHANGED <<inputs, prover_data, i, caught, rendered>>

\* variant: only the String downcast is tried
PayloadLineStringOnly(payload) ==
    IF payload.type = "String" THEN Err("error", payload.msg)
    ELSE Err("error_unknown", <<>>)

\* the if let chain over e.downcast_ref::<String>() and ::<&str>()
PayloadLine(payload) ==
    IF payload.type = "String" THEN Err("error", payload.msg)
    ELSE IF payload.type = "str" THEN Err("error", payload.msg)
    ELSE Err("error_unknown", <<>>)

\* variant: the Err arm exits like the Ok arm
AbortStatusOk == 1 - 1

\* the status of the Err arm
AbortStatus == 1

\* Err(e) => { eprintln!(..); exit(1) }
ReportError ==
    /\ tool = "zcheck_curly" /\ pc = "match"
    /\ caught.tag = "Err"
    /\ out' = Append(out, PayloadLine(caught.payload))
    /\ Exit(AbortStatus)
    /\ UNCHANGED <<inputs, prover_data, i, caught, rendered>>

Next ==
    \/ CheckArgs \/ Announce \/ OpenFile \/ Deserialize
    \/ PrintSummary \/ PrintVariablesHeader \/ PrintVar \/ PrintConstraintsHeader
    \/ PrintConstraint \/ PrintWitness \/ Return
    \/ CallPrintLc
    \/ CallGen \/ ReportValid \/ ReportError

Spec == Init /\ [][Next]_vars

\* ---- properties ----

IsInspect == tool = "r1cs_inspect"
IsCheck == tool = "zcheck_curly"
LcReturned == tool = "print_lc" /\ pc = "returned"
Exited == pc = "exited"
\* the report is complete
ReportDone == IsInspect /\ pc \in {"return", "exited"} /\ file.state = "valid"

Kinds(q) == [k \in 1 .. Len(q) |-> q[k].kind]
StdErr == SelectSeq(out, LAMBDA e : e.stream = "stderr")
StdOut == SelectSeq(out, LAMBDA e : e.stream = "stdout")
Pos(kind) == CHOOSE k \in 1 .. Len(out) : out[k].kind = kind
Between(from, to) == SubSeq(out, Pos(from) + 1, Pos(to) - 1)

\* C1: a complete report has, between the Variables and the Constraints
\* header, exactly one line per variable, numbered 0..N-1 in the artifact's
\* order, and, between the Constraints and the Witness header, exactly one
\* block per constraint: the header with the constraint's index, then the
\* rendered lines labelled A, B, C in that order.
C1_ReportShape ==
    ReportDone =>
        LET N == Len(prover_data.vars)
            M == Len(prover_data.constraints)
            vs == Between("variables_header", "constraints_header")
            cs == Between("constraints_header", "witness_header")
        IN  /\ Len(vs) = N
            /\ \A k \in 1 .. N :
                 vs[k].kind = "var" /\ vs[k].n = k - 1 /\ vs[k].var = prover_data.vars[k]
            /\ Len(cs) = 4 * M
            /\ \A k \in 0 .. (M - 1) :
                 /\ cs[4 * k + 1].kind = "constraint" /\ cs[4 * k + 1].n = k
                 /\ Kinds(SubSeq(cs, 4 * k + 2, 4 * k + 4)) = <<"lc", "lc", "lc">>
                 /\ cs[4 * k + 2].label = "  A"
                 /\ cs[4 * k + 3].label = "  B"
                 /\ cs[4 * k + 4].label = "  C"

C1_Witness ==
    /\ ReportDone /\ Exited
    /\ Len(prover_data.vars) >= 2 /\ prover_data.vars[1] > prover_data.vars[2]
    /\ Len(prover_data.constraints) >= 2

\* the section a line belongs to
Rank(kind) ==
    CASE kind = "loading" -> 0
      [] kind \in {"summary_header", "modulus", "num_vars", "num_constraints"} -> 1
      [] kind \in {"variables_header", "var"} -> 2
      [] kind \in {"constraints_header", "constraint", "lc"} -> 3
      [] kind \in {"witness_header", "num_steps", "num_step_args"} -> 4
      [] OTHER -> 5

SectionStarts ==
    <<"loading", "summary_header", "variables_header", "constraints_header",
      "witness_header">>

\* C2: in the inspector's output no line of a later section precedes a line
\* of an earlier one, every section opens with its header, no header is
\* printed twice, and a run that exits with status 0 has printed the loading
\* notice and the Summary, Variables, Constraints and Witness headers, in
\* that order.
C2_SectionOrder ==
    IsInspect =>
        LET ranks == [k \in 1 .. Len(StdOut) |-> Rank(StdOut[k].kind)]
            starts == {SectionStarts[n] : n \in 1 .. 5}
            headers == SelectSeq(Kinds(StdOut), LAMBDA x : x \in starts)
        IN  /\ \A k \in 2 .. Len(ranks) : ranks[k - 1] <= ranks[k]
            /\ \A k \in 1 .. Len(ranks) : ranks[k] < 5
            /\ \A k \in 1 .. Len(ranks) :
                 (k = 1 \/ ranks[k - 1] < ranks[k])
                    <=> StdOut[k].kind = SectionStarts[ranks[k] + 1]
            /\ headers = SubSeq(SectionStarts, 1, Len(headers))
            /\ exitCode = 0 => headers = SectionStarts

C2_Witness ==
    /\ IsInspect /\ exitCode = 0
    /\ Len(prover_data.vars) >= 1 /\ Len(prover_data.constraints) >= 1

IsDigit(ch) == ch \in {"0", "1", "2", "3", "4", "5", "6", "7", "8", "9"}
DigitValue(ch) == CHOOSE d \in 0 .. 9 : Digit(d) = ch

RECURSIVE Value(_)
\* the number a string of digits denotes
Value(text) ==
    IF text = <<>> THEN 0
    ELSE 10 * Value(SubSeq(text, 1, Len(text) - 1)) + DigitValue(text[Len(text)])

\* text is the decimal form of n: digits only, no leading zero, value n
IsDecimalOf(text, n) ==
    /\ text # <<>>
    /\ \A k \in 1 .. Len(text) : IsDigit(text[k])
    /\ (Len(text) > 1 => text[1] # "0")
    /\ Value(text) = n

\* C3: print_lc on a linear combination without monomials renders "0" when
\* the constant is zero and the decimal form of the constant otherwise; the
\* printed line carries the label and that value and nothing else.
C3_NoMonomials ==
    (LcReturned /\ lcArg.lc.monomials = <<>>) =>
        /\ (lcArg.lc.constant = 0 => rendered.s = <<"0">>)
        /\ (lcArg.lc.constant # 0 => IsDecimalOf(rendered.s, lcArg.lc.constant))
        /\ ~ ("sep" \in {rendered.parts[k] : k \in 1 .. Len(rendered.parts)})
        /\ Len(out) = 1
        /\ out[1].label = lcArg.label /\ out[1].text = rendered.s

C3_Witness ==
    /\ LcReturned /\ lcArg.lc.monomials = <<>>
    /\ lcArg.lc.constant >= 10

\* text is k, then "*", then name
IsProductOf(text, k, name) ==
    \E n \in 1 .. Len(text) :
        /\ IsDecimalOf(SubSeq(text, 1, n), k)
        /\ SubSeq(text, n + 1, Len(text)) = <<"*">> \o name

NameOr(names, var, token) == IF var \in DOMAIN names THEN names[var] ELSE token

\* the terms of a linear combination: the constant when it is not zero, then
\* one term per monomial
TermOf(m, names) ==
    LET name == NameOr(names, m[1], <<"?">>)
    IN  IF m[2] = 1 THEN name ELSE Decimal(m[2]) \o <<"*">> \o name

Terms(lc, names) ==
    (IF lc.constant # 0 THEN <<Decimal(lc.constant)>> ELSE <<>>)
        \o [k \in 1 .. Len(lc.monomials) |-> TermOf(lc.monomials[k], names)]

RECURSIVE Join(_)
\* the terms with " + " between neighbours
Join(terms) ==
    IF terms = <<>> THEN <<>>
    ELSE IF Len(terms) = 1 THEN terms[1]
    ELSE terms[1] \o <<" ", "+", " ">> \o Join(Tail(terms))

\* the value a linear combination is expected to render as
Rendering(lc, names) ==
    IF Terms(lc, names) = <<>> THEN <<"0">> ELSE Join(Terms(lc, names))

\* C5: in the report a variable without an entry in the name mapping is
\* printed as "<unnamed>" on its Variables line and as "?" inside the
\* rendered linear combinations; a variable with an entry is printed under
\* the mapped name in both places.
C5_Fallbacks ==
    ReportDone =>
        LET vs == Between("variables_header", "constraints_header")
            cs == Between("constraints_header", "witness_header")
            names == prover_data.names
        IN  /\ \A k \in 1 .. Len(vs) :
                 vs[k].text = NameOr(names, prover_data.vars[k], <<"<unnamed>">>)
            /\ \A k \in 1 .. Len(prover_data.constraints) :
                 \A a \in 1 .. 3 :
                    cs[4 * (k - 1) + 1 + a].text
                        = Rendering(prover_data.constraints[k][a], names)

\* a listed variable without a name occurs in a constraint, and so does a
\* named one
C5_Witness ==
    /\ ReportDone /\ Exited
    /\ \E k \in 1 .. Len(prover_data.vars), c \in 1 .. Len(prover_data.constraints) :
         /\ prover_data.vars[k] \notin DOMAIN prover_data.names
         /\ prover_data.constraints[c][2].monomials[1][1] = prover_data.vars[k]
    /\ \E k \in 1 .. Len(prover_data.vars), c \in 1 .. Len(prover_data.constraints) :
         /\ prover_data.vars[k] \in DOMAIN prover_data.names
         /\ prover_data.constraints[c][2].monomials[1][1] = prover_data.vars[k]

ReportKinds ==
    {"summary_header", "modulus", "num_vars", "num_constraints", "variables_header",
     "var", "constraints_header", "constraint", "lc", "witness_header", "num_steps",
     "num_step_args"}

NoReportLine == \A k \in 1 .. Len(out) : out[k].kind \notin ReportKinds

\* C6: the inspector called with a number of path arguments other than one
\* exits nonzero having printed the usage message and nothing else; called
\* with a path that cannot be opened or whose bytes do not decode, it exits
\* nonzero and no line of a report section is ever printed.
C6_InspectorFailures ==
    IsInspect =>
        /\ (argc # 2 /\ Exited) =>
              /\ exitCode \notin {-1, 0}
              /\ Kinds(out) = <<"usage", "example">>
              /\ \A k \in 1 .. Len(out) : out[k].stream = "stderr"
        /\ (argc = 2 /\ file.state \in {"missing", "corrupt"}) =>
              /\ NoReportLine
              /\ Exited => exitCode \notin {-1, 0}
        /\ (argc # 2 \/ file.state \in {"missing", "corrupt"}) => pc \notin {"summary", "return"}

C6_Witness == IsInspect /\ Exited /\ file.state = "corrupt" /\ Len(out) > 1

C6_WitnessUsage == IsInspect /\ Exited /\ argc = 3

C7_WitnessAbort == IsCheck /\ Exited /\ ~ frontend.returns

\* the lines the validator itself prints
OwnLines == SelectSeq(out, LAMBDA e : e.kind \in {"valid", "error", "error_unknown"})

\* C8: after a panic whose payload is a String or a &str the validator
\* prints that string, unchanged, on the error stream and exits nonzero;
\* after a panic with any other payload it prints the fixed unknown-error
\* message instead; it prints exactly one of these messages per panic.
C8_PayloadMessage ==
    (IsCheck /\ Exited /\ ~ frontend.returns) =>
        /\ exitCode \notin {-1, 0}
        /\ Len(OwnLines) = 1
        /\ OwnLines[1].stream = "stderr"
        /\ out[Len(out)] = OwnLines[1]
        /\ frontend.payload.type \in {"String", "str"} =>
              OwnLines[1].kind = "error" /\ OwnLines[1].text = frontend.payload.msg
        /\ frontend.payload.type \notin {"String", "str"} =>
              OwnLines[1].kind = "error_unknown"

C8_Witness == IsCheck /\ Exited /\ frontend.payload.type = "str"

C8_WitnessOther == IsCheck /\ Exited /\ frontend.payload.type = "other"

FailureExit == Exited /\ exitCode # 0
DiagnosticKinds == {"panic_location", "stack_backtrace", "panic_note"}

\* C9 as stated: every failure path prints one single line of explanation
\* before the nonzero exit and shows no stack trace or internal diagnostic.
C9_SingleLine ==
    FailureExit =>
        /\ Len(StdErr) = 1
        /\ \A k \in 1 .. Len(out) : out[k].kind \notin DiagnosticKinds

\* C9, amended: every failure path exits nonzero after at least one line on
\* the error stream and prints no report or success line; the file-open
\* failure prints one line, the wrong argument count two (usage and
\* example), and the decoding failure and the intercepted front-end panic
\* are reported by the panic hook (location, message, and the backtrace when
\* RUST_BACKTRACE is set, a note otherwise), after which the validator adds
\* its own message line.
C9_FailureOutput ==
    FailureExit =>
        /\ StdErr # <<>>
        /\ NoReportLine /\ (\A k \in 1 .. Len(out) : out[k].kind # "valid")
        /\ IsInspect /\ argc # 2 => Kinds(StdErr) = <<"usage", "example">>
        /\ IsInspect /\ file.state = "missing" => Kinds(StdErr) = <<"io_error">>
        /\ IsInspect /\ file.state = "corrupt" =>
              /\ Kinds(StdErr) = <<"panic_location", "panic_message",
                                   IF backtrace THEN "stack_backtrace" ELSE "panic_note">>
              /\ StdErr[2].text = <<"Failed to deserialize ProverData">>
        /\ IsCheck =>
              /\ Kinds(SubSeq(StdErr, 1, 3)) = <<"panic_location", "panic_message",
                                   IF backtrace THEN "stack_backtrace" ELSE "panic_note">>
              /\ StdErr[2].text = frontend.payload.msg
              /\ Len(StdErr) = 4
              /\ StdErr[4].kind \in {"error", "error_unknown"}

C9_Witness == FailureExit /\ IsCheck /\ backtrace

C9_WitnessCorrupt == FailureExit /\ IsInspect /\ file.state = "corrupt"

Count(q, x) == Len(SelectSeq(q, LAMBDA y : y = x))

\* every monomial's variable resolves to a non-empty name
NamesNonEmpty(lc, names) ==
    \A k \in 1 .. Len(lc.monomials) : NameOr(names, lc.monomials[k][1], <<"?">>) # <<>>

\* C10: for a linear combination whose resolved names are all non-empty,
\* the rendered value is its terms joined by " + ": the constant, when not
\* zero, is the first term, one term per monomial follows in iteration
\* order, one separator is written between neighbouring terms (terms - 1
\* in all) and none before the first or after the last term; without any
\* term the value is "0".
C10_Joined ==
    (LcReturned /\ NamesNonEmpty(lcArg.lc, lcArg.names)) =>
        LET terms == Terms(lcArg.lc, lcArg.names)
            parts == rendered.parts
            n == Len(lcArg.lc.monomials)
        IN  /\ terms # <<>> => rendered.s = Join(terms)
            /\ terms = <<>> => rendered.s = <<"0">>
            /\ Count(parts, "const") = (IF lcArg.lc.constant # 0 THEN 1 ELSE 0)
            /\ Count(parts, "mono") = n
            /\ Len(terms) = Count(parts, "const") + n
            /\ terms # <<>> =>
                 /\ Count(parts, "sep") = Len(terms) - 1
                 /\ parts[1] # "sep" /\ parts[Len(parts)] # "sep"
                 /\ \A k \in 1 .. Len(parts) : (parts[k] = "sep") <=> (k % 2 = 0)
                 /\ (lcArg.lc.constant # 0 => parts[1] = "const")
            /\ out[1].text = rendered.s

C10_Witness ==
    /\ LcReturned /\ NamesNonEmpty(lcArg.lc, lcArg.names)
    /\ lcArg.lc.constant # 0
    /\ Len(lcArg.lc.monomials) = 2
    /\ lcArg.lc.monomials[1][1] > lcArg.lc.monomials[2][1]
    /\ lcArg.lc.monomials[1][2] = 1

\* without the precondition C10 fails: an empty name with coefficient 1
C10_EmptyNameCase ==
    /\ LcReturned /\ ~ NamesNonEmpty(lcArg.lc, lcArg.names)
    /\ rendered.s # Join(Terms(lcArg.lc, lcArg.names))

====
